---- MODULE Spec2Model ----
(***************************************************************************)
(* Model of schedule_maker.py: the monthly on-call roster script.          *)
(*                                                                         *)
(* The script is one straight-line run: read the doctors sheet, resolve    *)
(* each doctor's unavailability tokens, build the CP-SAT model (variables, *)
(* hard constraints, objective), call the solver once, check its status,   *)
(* decode the roster and write it.  The run is modelled as a state machine *)
(* whose program counter pc walks through these stages.  The CP-SAT solver *)
(* is an external library: Solve is modelled by its contract (any          *)
(* assignment of the variables that satisfies every posted constraint, a   *)
(* maximising one for OPTIMAL, no assignment for INFEASIBLE / UNKNOWN).    *)
(*                                                                         *)
(* Day indices are 0-based as in the script (i of enumerate(dates)); day   *)
(* numbers (the tokens of the sheet) are 1-based.  Weekdays follow         *)
(* datetime.weekday(): Monday = 0 ... Sunday = 6.                          *)
(***************************************************************************)
EXTENDS Integers, Sequences, FiniteSets, TLC

VARIABLES
    days_in_month,              \* calendar.monthrange(...)[1]
    first_weekday,              \* first_day.weekday()
    doctors_list,               \* doctors_df["Doctor"].tolist()
    raw,                        \* the Unavailability cell of each row, split on ","
    row,                        \* position of the parsing loop over the rows
    unavailability,             \* doc -> set of unavailable day indices
    warnings,                   \* number of warnings printed while parsing
    x,                          \* keys (i, doc) of the assignment variables
    allow_unassigned_tuesdays,
    coverage,                   \* day index -> "eq1" | "le1", the coverage constraint posted
    min_days, max_days,
    min_wkend, max_wkend,
    status,                     \* what solver.Solve returned
    value,                      \* solver.Value: day index -> set of doctors whose variable is 1
    solve_calls,                \* number of calls of solver.Solve
    schedule,                   \* the decoded roster, one entry per day
    out_file,                   \* contents of OUT_FILE (<<>> while not written)
    written,                    \* whether OUT_FILE has been written
    pc

vars == <<days_in_month, first_weekday, doctors_list, raw, row, unavailability,
          warnings, x, allow_unassigned_tuesdays, coverage, min_days, max_days,
          min_wkend, max_wkend, status, value, solve_calls, schedule, out_file,
          written, pc>>

(***************************************************************************)
(* Program constants                                                       *)
(***************************************************************************)
W_BLOCK_DEV_PENALTY == 2
W_FULL_WKEND_OFF_BONUS == 5
W_BALANCE_FULL_WKENDS_OFF == 20
W_DIFF_WKEND_DUTY_DAY == 2
MaxDutiesPerDoctor == 7
num_blocks == 4
Tuesday == 1
Friday == 4
Saturday == 5
Sunday == 6
MinMonthLength == 28
MaxMonthLength == 31
DaysPerWeek == 7

UNASSIGNED == 0     \* the "UNASSIGNED" sentinel; doctors are 1, 2, ...

(***************************************************************************)
(* Bounds of the explored inputs                                           *)
(***************************************************************************)
MaxDoctors == 5     \* largest doctor list of the rota sheets
MaxStaff == 9       \* largest doctor list of the sheets with a doctor away all month

(***************************************************************************)
(* Calendar                                                                *)
(***************************************************************************)
Days == 0 .. (days_in_month - 1)

weekday(i) == (first_weekday + i) % DaysPerWeek

is_weekend(i) == weekday(i) >= Saturday

DocSet == {doctors_list[k] : k \in 1 .. Len(doctors_list)}

num_docs == Len(doctors_list)

(***************************************************************************)
(* Tokens of an Unavailability cell.  A token is a sequence of characters. *)
(***************************************************************************)
Digits == {"0", "1", "2", "3", "4", "5", "6", "7", "8", "9"}

DigitValue(c) ==
    CASE c = "0" -> 0 [] c = "1" -> 1 [] c = "2" -> 2 [] c = "3" -> 3
      [] c = "4" -> 4 [] c = "5" -> 5 [] c = "6" -> 6 [] c = "7" -> 7
      [] c = "8" -> 8 [] c = "9" -> 9

\* str.strip(): drop the leading and the trailing blanks
RECURSIVE StripLeft(_)
StripLeft(t) ==
    IF t # <<>> /\ Head(t) = " " THEN StripLeft(Tail(t)) ELSE t

RECURSIVE StripRight(_)
StripRight(t) ==
    IF t # <<>> /\ t[Len(t)] = " " THEN StripRight(SubSeq(t, 1, Len(t) - 1)) ELSE t

strip(t) == StripRight(StripLeft(t))

\* tokens = [t.strip() for t in str(raw).split(",") if t.strip() != ""]
RECURSIVE tokens_of(_)
tokens_of(cell) ==
    IF cell = <<>> THEN <<>>
    ELSE IF strip(Head(cell)) = <<>> THEN tokens_of(Tail(cell))
    ELSE <<strip(Head(cell))>> \o tokens_of(Tail(cell))

\* the digits of t read as a decimal number
RECURSIVE DecimalValue(_)
DecimalValue(t) ==
    IF t = <<>> THEN 0
    ELSE 10 * DecimalValue(SubSeq(t, 1, Len(t) - 1)) + DigitValue(t[Len(t)])

AllDigits(t) == t # <<>> /\ \A k \in 1 .. Len(t) : t[k] \in Digits

\* int(t) raises ValueError unless t is an optionally signed run of digits
int_parses(t) ==
    \/ AllDigits(t)
    \/ /\ t # <<>>
       /\ Head(t) \in {"+", "-"}
       /\ AllDigits(Tail(t))

int_of(t) ==
    IF Head(t) = "-" THEN 0 - DecimalValue(Tail(t))
    ELSE IF Head(t) = "+" THEN DecimalValue(Tail(t))
    ELSE DecimalValue(t)

\* faulty variant: the last day of the month is taken to be out of range
token_in_range_exclusive(t) ==
    int_parses(t) /\ 1 <= int_of(t) /\ int_of(t) < days_in_month

\* the branch of lines 63-71 taken by token t
token_in_range(t) == int_parses(t) /\ 1 <= int_of(t) /\ int_of(t) <= days_in_month

\* unavailable_days of one cell, as day indices (date of day number n is index n - 1)
unavailable_days(cell) ==
    LET toks == tokens_of(cell)
    IN  {int_of(toks[k]) - 1 : k \in {j \in 1 .. Len(toks) : token_in_range(toks[j])}}

warnings_of(cell) ==
    LET toks == tokens_of(cell)
    IN  Cardinality({j \in 1 .. Len(toks) : ~token_in_range(toks[j])})

(***************************************************************************)
(* The input sheets explored.  Every sheet is one a user can write: a list *)
(* of doctors 1 .. D and, per doctor, a cell of comma-separated tokens.    *)
(***************************************************************************)
DigitChar(n) ==
    CASE n = 0 -> "0" [] n = 1 -> "1" [] n = 2 -> "2" [] n = 3 -> "3"
      [] n = 4 -> "4" [] n = 5 -> "5" [] n = 6 -> "6" [] n = 7 -> "7"
      [] n = 8 -> "8" [] n = 9 -> "9"

\* the text of day number n
RECURSIVE DayText(_)
DayText(n) ==
    IF n < 10 THEN <<DigitChar(n)>> ELSE DayText(n \div 10) \o <<DigitChar(n % 10)>>

Min(S) == CHOOSE m \in S : \A n \in S : m <= n

\* the cell listing the day numbers of S in ascending order
RECURSIVE CellOf(_)
CellOf(S) ==
    IF S = {} THEN <<>> ELSE <<DayText(Min(S))>> \o CellOf(S \ {Min(S)})

\* stray tokens a cell may also hold: unparsable, out of range, blank, padded
NoiseCells ==
    { <<>>,
      << <<"x">> >>,
      << <<"0">>, <<"3", "2">> >>,
      << <<" ">>, <<"-", "3">>, <<"5", ".", "0">> >>,
      << <<" ", "7", " ">> >> }

\* doctor j of D is on a rota: free on two days in every D, unavailable otherwise
RotaOffsets == {0, 1}

RotaBusy(T, D, j) == {n \in 1 .. T : ((n - 1) - (j - 1)) % D \notin RotaOffsets}

OpenDoctorCounts == {1, 2, 3}

BlockedDayNumbers == {9, 10}

\* the sheets: doctor count, doc -> set of unavailable day numbers, stray tokens
OpenSheets(T) ==
    {[docs |-> D, busy |-> [j \in 1 .. D |-> {}], stray |-> noise] :
        D \in OpenDoctorCounts, noise \in NoiseCells}

RotaSheets(T) ==
    {[docs |-> D, busy |-> [j \in 1 .. D |-> RotaBusy(T, D, j)], stray |-> noise] :
        D \in 5 .. MaxDoctors, noise \in NoiseCells}
    \cup {[docs |-> 4, busy |-> [j \in 1 .. 4 |-> RotaBusy(T, 4, j)], stray |-> <<>>]}

\* D doctors take turns: one place on every day, two more at every seventh day;
\* doctor j is unavailable on every day that is not its turn
TurnOf(n, D) == (((n - 1) % DaysPerWeek) + 2 * ((n - 1) \div DaysPerWeek)) % D

TurnBusy(T, D, j) == {n \in 1 .. T : TurnOf(n, D) # j - 1}

\* the last doctor is away all month, the others take turns
AbsentSheets(T) ==
    {[docs |-> D,
      busy |-> [j \in 1 .. D |-> IF j = D THEN 1 .. T ELSE TurnBusy(T, D - 1, j)],
      stray |-> <<>>] : D \in 5 .. MaxStaff}

BlockedSheets(T) ==
    {[docs |-> 4, busy |-> [j \in 1 .. 4 |-> RotaBusy(T, 4, j) \cup {b}], stray |-> <<>>] :
        b \in BlockedDayNumbers}

Sheets(T) == OpenSheets(T) \cup RotaSheets(T) \cup AbsentSheets(T) \cup BlockedSheets(T)

MonthLengths == MinMonthLength .. MaxMonthLength

Init ==
    /\ days_in_month \in MonthLengths
    /\ first_weekday \in 0 .. (DaysPerWeek - 1)
    /\ \E sheet \in Sheets(days_in_month) :
          /\ doctors_list = [k \in 1 .. sheet.docs |-> k]
          /\ raw = [j \in 1 .. sheet.docs |->
                      IF j = 1 THEN CellOf(sheet.busy[j]) \o sheet.stray
                      ELSE CellOf(sheet.busy[j])]
    /\ row = 1
    /\ unavailability = <<>>
    /\ warnings = 0
    /\ x = {}
    /\ allow_unassigned_tuesdays = FALSE
    /\ coverage = <<>>
    /\ min_days = 0
    /\ max_days = 0
    /\ min_wkend = 0
    /\ max_wkend = 0
    /\ status = "NONE"
    /\ value = <<>>
    /\ solve_calls = 0
    /\ schedule = <<>>
    /\ out_file = <<>>
    /\ written = FALSE
    /\ pc = "parse"

(***************************************************************************)
(* 1. Read input: the loop over the rows of the sheet (lines 52-73)        *)
(***************************************************************************)
ParseRow ==
    /\ pc = "parse"
    /\ row <= Len(doctors_list)
    /\ LET doc == doctors_list[row]
       IN  /\ unavailability' =
                [d \in DOMAIN unavailability \cup {doc} |->
                    IF d = doc THEN unavailable_days(raw[row]) ELSE unavailability[d]]
           /\ warnings' = warnings + warnings_of(raw[row])
    /\ row' = row + 1
    /\ UNCHANGED <<days_in_month, first_weekday, doctors_list, raw, x,
                   allow_unassigned_tuesdays, coverage, min_days, max_days, min_wkend,
                   max_wkend, status, value, solve_calls, schedule, out_file, written, pc>>

ParseDone ==
    /\ pc = "parse"
    /\ row > Len(doctors_list)
    /\ pc' = "variables"
    /\ UNCHANGED <<days_in_month, first_weekday, doctors_list, raw, row, unavailability,
                   warnings, x, allow_unassigned_tuesdays, coverage, min_days, max_days,
                   min_wkend, max_wkend, status, value, solve_calls, schedule, out_file,
                   written>>

(***************************************************************************)
(* 2. Build the model                                                      *)
(***************************************************************************)
\* unavailability.get(doc, set())
unavailable_of(doc) == IF doc \in DOMAIN unavailability THEN unavailability[doc] ELSE {}

\* lines 84-89: one variable per (day, doctor) unless the doctor is unavailable that day
variable_keys == {<<i, doc>> \in Days \X DocSet : i \notin unavailable_of(doc)}

CreateVariables ==
    /\ pc = "variables"
    /\ x' = variable_keys
    /\ pc' = "capacity"
    /\ UNCHANGED <<days_in_month, first_weekday, doctors_list, raw, row, unavailability,
                   warnings, allow_unassigned_tuesdays, coverage, min_days, max_days,
                   min_wkend, max_wkend, status, value, solve_calls, schedule, out_file,
                   written>>

\* lines 91-96
max_possible_duties == Len(doctors_list) * MaxDutiesPerDoctor

\* faulty variant: the capacity test with <= for <
not_enough_doctors_inclusive == max_possible_duties <= days_in_month

not_enough_doctors == max_possible_duties < days_in_month

CheckCapacity ==
    /\ pc = "capacity"
    /\ allow_unassigned_tuesdays' = not_enough_doctors
    /\ pc' = "coverage"
    /\ UNCHANGED <<days_in_month, first_weekday, doctors_list, raw, row, unavailability,
                   warnings, x, coverage, min_days, max_days, min_wkend, max_wkend,
                   status, value, solve_calls, schedule, out_file, written>>

\* faulty variant: the relaxation without its weekday test
coverage_kind_any_day(i) == IF allow_unassigned_tuesdays THEN "le1" ELSE "eq1"

\* lines 99-105: which coverage constraint day i gets
coverage_kind(i) ==
    IF allow_unassigned_tuesdays /\ weekday(i) = Tuesday THEN "le1" ELSE "eq1"

AddCoverage ==
    /\ pc = "coverage"
    /\ coverage' = [i \in Days |-> coverage_kind(i)]
    /\ pc' = "fairness"
    /\ UNCHANGED <<days_in_month, first_weekday, doctors_list, raw, row, unavailability,
                   warnings, x, allow_unassigned_tuesdays, min_days, max_days, min_wkend,
                   max_wkend, status, value, solve_calls, schedule, out_file, written>>

\* faulty variant: the floor of the band kept within the cap
band_low_capped(total) == Min({total \div num_docs, MaxDutiesPerDoctor})

\* lines 109-111 and 125-127: the fairness bands
band_low(total) == total \div num_docs

band_high(total) ==
    IF total % num_docs = 0 THEN band_low(total) ELSE band_low(total) + 1

total_days == days_in_month

total_weekends == Cardinality({i \in Days : is_weekend(i)})

AddFairness ==
    /\ pc = "fairness"
    /\ min_days' = band_low(total_days)
    /\ max_days' = band_high(total_days)
    /\ min_wkend' = band_low(total_weekends)
    /\ max_wkend' = band_high(total_weekends)
    /\ pc' = "solve"
    /\ UNCHANGED <<days_in_month, first_weekday, doctors_list, raw, row, unavailability,
                   warnings, x, allow_unassigned_tuesdays, coverage, status, value,
                   solve_calls, schedule, out_file, written>>

(***************************************************************************)
(* The posted constraints, read on an assignment.  An assignment sol gives *)
(* for every day index i the set sol[i + 1] of doctors whose variable      *)
(* x[(i, doc)] is 1; only doctors with a variable on day i can be in it.   *)
(***************************************************************************)
\* x.get((i, doc), 0) under sol
Val(sol, i, doc) == IF <<i, doc>> \in x /\ doc \in sol[i + 1] THEN 1 ELSE 0

\* sum(x.get((i, doc), 0) for i in S)
DutiesOn(sol, doc, S) == Cardinality({i \in S : Val(sol, i, doc) = 1})

\* faulty variant: every day covered by "at most one"
coverage_holds_relaxed(i, n) == n <= 1

\* lines 99-105, on the number n of doctors assigned on day i
coverage_holds(i, n) == IF coverage[i] = "le1" THEN n <= 1 ELSE n = 1

\* faulty variant: the lower bound of the band one duty too low
total_duties_hold_low(n) == n >= min_days - 1 /\ n <= max_days /\ n <= MaxDutiesPerDoctor

\* lines 112-117, on the number n of duties of one doctor
total_duties_hold(n) == n >= min_days /\ n <= max_days /\ n <= MaxDutiesPerDoctor

\* faulty variant: the loop over the adjacent pairs stops one pair early
adjacent_pairs_short == 0 .. (days_in_month - 3)

\* line 120: the first days i of the pairs (i, i + 1) the loop visits
adjacent_pairs == 0 .. (days_in_month - 2)

\* lines 121-122, on the values a and b of one doctor's variables on adjacent days
no_consecutive_holds(a, b) == a + b <= 1

\* lines 128-130, on the number n of weekend duties of one doctor
weekend_duties_hold(n) == n >= min_wkend /\ n <= max_wkend

\* lines 223-238: extra == sum(vars) - 1 with extra in [0, len(vars) - 1], posted
\* only when the doctor has more than one variable on that weekday
extra_defined(nvars, n) == nvars > 1 => (n - 1 >= 0 /\ n - 1 <= nvars - 1)

weekday_indices(w) == {i \in Days : weekday(i) = w}

vars_on(doc, S) == {i \in S : <<i, doc>> \in x}

weekend_day_repeat_holds(sol, doc) ==
    /\ extra_defined(Cardinality(vars_on(doc, weekday_indices(Saturday))),
                     DutiesOn(sol, doc, weekday_indices(Saturday)))
    /\ extra_defined(Cardinality(vars_on(doc, weekday_indices(Sunday))),
                     DutiesOn(sol, doc, weekday_indices(Sunday)))

\* lines 242-245: the Friday of every Friday-Saturday-Sunday triple of the month
full_weekends ==
    {i \in 0 .. (days_in_month - 3) :
        weekday(i) = Friday /\ weekday(i + 1) = Saturday /\ weekday(i + 2) = Sunday}

\* lines 247-269: at least one full weekend off
rest_weekend_holds(sol, doc) ==
    full_weekends # {} =>
        \E fri \in full_weekends :
            Val(sol, fri, doc) + Val(sol, fri + 1, doc) + Val(sol, fri + 2, doc) = 0

weekend_indices == {i \in Days : is_weekend(i)}

\* the constraints the script posts as hard constraints (lines 98-130 and 269)
HardConstraints(sol) ==
    /\ \A i \in Days : coverage_holds(i, Cardinality(sol[i + 1]))
    /\ \A doc \in DocSet :
          /\ total_duties_hold(DutiesOn(sol, doc, Days))
          /\ weekend_duties_hold(DutiesOn(sol, doc, weekend_indices))
          /\ rest_weekend_holds(sol, doc)
    /\ \A i \in adjacent_pairs : \A doc \in DocSet :
          no_consecutive_holds(Val(sol, i, doc), Val(sol, i + 1, doc))

\* every constraint of the model: the hard ones and the defining equations of the
\* auxiliary variables of the objective that restrict the assignment
Satisfies(sol) ==
    /\ HardConstraints(sol)
    /\ \A doc \in DocSet : weekend_day_repeat_holds(sol, doc)

(***************************************************************************)
(* The objective (lines 153-238 and 278-303).  Under maximisation every    *)
(* auxiliary variable takes the value its defining constraints force or,   *)
(* for a penalised lower-bounded one, its least admissible value.          *)
(***************************************************************************)
RECURSIVE SumOver(_, _)
SumOver(f, S) ==
    IF S = {} THEN 0
    ELSE LET e == CHOOSE e \in S : TRUE IN f[e] + SumOver(f, S \ {e})

Max(a, b) == IF a >= b THEN a ELSE b

\* lines 189-204: the Fridays whose Saturday and Sunday are in the month
weekend_anchors == {i \in Days : weekday(i) = Friday /\ i + 2 < days_in_month}

full_weekends_off(sol, doc) ==
    Cardinality({i \in weekend_anchors :
        Val(sol, i, doc) + Val(sol, i + 1, doc) + Val(sol, i + 2, doc) = 0})

\* lines 154-179
block_size == (days_in_month + num_blocks - 1) \div num_blocks

rounded_ideal_low == days_in_month \div (num_docs * num_blocks)

rounded_ideal_high ==
    IF days_in_month % (num_docs * num_blocks) = 0
    THEN rounded_ideal_low ELSE rounded_ideal_low + 1

block_days(b) ==
    {i \in Days : i >= b * block_size /\ i < (b + 1) * block_size}

block_deviation(sol, doc, b) ==
    IF vars_on(doc, block_days(b)) = {} THEN 0
    ELSE LET duties_sum == DutiesOn(sol, doc, block_days(b))
         IN  Max(0, Max(duties_sum - rounded_ideal_high, rounded_ideal_low - duties_sum))

\* lines 206-220
total_full_weekends == Cardinality(weekday_indices(Friday))

int_avg_full_weekends_off == total_full_weekends \div num_docs

full_weekends_off_deviation(sol, doc) ==
    LET n == full_weekends_off(sol, doc)
    IN  Max(n - int_avg_full_weekends_off, int_avg_full_weekends_off - n)

\* lines 226-238: extra_sat + extra_sun of one doctor
extra_of(nvars, n) == IF nvars > 1 THEN n - 1 ELSE 0

weekend_day_repeats(sol, doc) ==
      extra_of(Cardinality(vars_on(doc, weekday_indices(Saturday))),
               DutiesOn(sol, doc, weekday_indices(Saturday)))
    + extra_of(Cardinality(vars_on(doc, weekday_indices(Sunday))),
               DutiesOn(sol, doc, weekday_indices(Sunday)))

\* lines 278-303
full_obj(sol) ==
      W_FULL_WKEND_OFF_BONUS
        * SumOver([doc \in DocSet |-> full_weekends_off(sol, doc)], DocSet)
    - W_BLOCK_DEV_PENALTY
        * SumOver([doc \in DocSet |->
                     SumOver([b \in 0 .. (num_blocks - 1) |-> block_deviation(sol, doc, b)],
                             0 .. (num_blocks - 1))], DocSet)
    - W_BALANCE_FULL_WKENDS_OFF
        * SumOver([doc \in DocSet |-> full_weekends_off_deviation(sol, doc)], DocSet)
    - W_DIFF_WKEND_DUTY_DAY
        * SumOver([doc \in DocSet |-> weekend_day_repeats(sol, doc)], DocSet)

(***************************************************************************)
(* 3. Solve (lines 308-311).  The assignments are enumerated day by day;   *)
(* a partial assignment is dropped as soon as a posted constraint can no   *)
(* longer be met by any completion of it, and the complete ones are kept   *)
(* when they satisfy every constraint.                                     *)
(***************************************************************************)
\* the values the coverage constraint leaves to the variables of day i
DayChoices(i) ==
    {S \in SUBSET {doc \in DocSet : <<i, doc>> \in x} : coverage_holds(i, Cardinality(S))}

\* the most duties one doctor can still take on the days n, n + 1, ... when its
\* variables are on the days W: the entry n + 1 of the sequence for days 0 .. T
RECURSIVE DutiesLeft(_, _)
DutiesLeft(W, n) ==
    IF n >= days_in_month THEN <<0>>
    ELSE LET rest == DutiesLeft(W, n + 1)
             next_free == IF n \notin adjacent_pairs \/ no_consecutive_holds(1, 1) THEN 1 ELSE 2
         IN  <<IF n \in W THEN 1 + rest[next_free] ELSE rest[1]>> \o rest

RECURSIVE DutiesLeftOfAll(_, _)
DutiesLeftOfAll(k, W) ==
    IF k > Len(doctors_list) THEN <<>>
    ELSE <<DutiesLeft(vars_on(doctors_list[k], W), 0)>> \o DutiesLeftOfAll(k + 1, W)

\* per position k of doctors_list: the duties, and the weekend duties, still possible
Lookahead == [all |-> DutiesLeftOfAll(1, Days), wkend |-> DutiesLeftOfAll(1, weekend_indices)]

\* a partial assignment p of days 0 .. n-1: p.seq the values; per doctor, p.cnt and
\* p.wk the duties and the weekend duties so far
EmptyPartial ==
    [seq |-> <<>>, cnt |-> [doc \in DocSet |-> 0], wk |-> [doc \in DocSet |-> 0]]

Extended(p, i, S) ==
    [seq |-> Append(p.seq, S),
     cnt |-> [doc \in DocSet |-> IF doc \in S THEN p.cnt[doc] + 1 ELSE p.cnt[doc]],
     wk  |-> [doc \in DocSet |->
                IF doc \in S /\ is_weekend(i) THEN p.wk[doc] + 1 ELSE p.wk[doc]]]

\* some completion of p over the days n, n + 1, ... can still meet the per-doctor sums
Completable(p, n, la) ==
    \A k \in 1 .. Len(doctors_list) :
        LET doc == doctors_list[k]
        IN  /\ \E m \in p.cnt[doc] .. (p.cnt[doc] + la.all[k][n + 1]) :
                  total_duties_hold(m)
            /\ \E m \in p.wk[doc] .. (p.wk[doc] + la.wkend[k][n + 1]) :
                  weekend_duties_hold(m)

\* S on day i does not follow a duty of the same doctor on day i - 1, where the
\* pair (i - 1, i) is constrained
FollowsRest(p, i, S) ==
    (i - 1) \in adjacent_pairs =>
        \A doc \in DocSet :
            no_consecutive_holds(IF doc \in p.seq[i] THEN 1 ELSE 0,
                                 IF doc \in S THEN 1 ELSE 0)

\* the partial assignments of days 0 .. n that extend one of P (of days 0 .. n-1)
Step(P, n, la) ==
    LET steps == {q \in P \X DayChoices(n) : FollowsRest(q[1], n, q[2])}
    IN  {p \in {Extended(q[1], n, q[2]) : q \in steps} : Completable(p, n + 1, la)}

RECURSIVE Grow(_, _, _)
Grow(P, n, la) ==
    IF P = {} \/ n = days_in_month THEN P ELSE Grow(Step(P, n, la), n + 1, la)

Candidates ==
    {p.seq : p \in Grow({p \in {EmptyPartial} : Completable(p, 0, Lookahead)}, 0, Lookahead)}

Solutions == {sol \in Candidates : Satisfies(sol)}

\* the assignments of S with the largest objective value
OptimalSolutions(S) ==
    LET scored == {<<full_obj(sol), sol>> : sol \in S}
        best == {q \in scored : \A r \in scored : r[1] <= q[1]}
    IN  {q[2] : q \in best}

Solve ==
    /\ pc = "solve"
    /\ solve_calls' = solve_calls + 1
    /\ LET S == Solutions
       IN  \/ \E sol \in OptimalSolutions(S) : status' = "OPTIMAL" /\ value' = sol
           \/ \E sol \in S : status' = "FEASIBLE" /\ value' = sol
           \/ S = {} /\ status' = "INFEASIBLE" /\ value' = <<>>
           \/ status' = "UNKNOWN" /\ value' = <<>>
    /\ pc' = "status"
    /\ UNCHANGED <<days_in_month, first_weekday, doctors_list, raw, row, unavailability,
                   warnings, x, allow_unassigned_tuesdays, coverage, min_days, max_days,
                   min_wkend, max_wkend, schedule, out_file, written>>

\* lines 313-314
solved == status \in {"OPTIMAL", "FEASIBLE"}

StatusOk ==
    /\ pc = "status"
    /\ solved
    /\ pc' = "export"
    /\ UNCHANGED <<days_in_month, first_weekday, doctors_list, raw, row, unavailability,
                   warnings, x, allow_unassigned_tuesdays, coverage, min_days, max_days,
                   min_wkend, max_wkend, status, value, solve_calls, schedule, out_file,
                   written>>

\* faulty variant: the roster file is created before the status is checked
RaiseAfterWriting ==
    /\ pc = "status"
    /\ status \notin {"OPTIMAL", "FEASIBLE"}
    /\ out_file' = schedule
    /\ written' = TRUE
    /\ pc' = "error"
    /\ UNCHANGED <<days_in_month, first_weekday, doctors_list, raw, row, unavailability,
                   warnings, x, allow_unassigned_tuesdays, coverage, min_days, max_days,
                   min_wkend, max_wkend, status, value, solve_calls, schedule>>

RaiseNoFeasibleSchedule ==
    /\ pc = "status"
    /\ ~solved
    /\ pc' = "error"
    /\ UNCHANGED <<days_in_month, first_weekday, doctors_list, raw, row, unavailability,
                   warnings, x, allow_unassigned_tuesdays, coverage, min_days, max_days,
                   min_wkend, max_wkend, status, value, solve_calls, schedule, out_file,
                   written>>

(***************************************************************************)
(* 4. Export (lines 319-333)                                               *)
(***************************************************************************)
\* lines 321-329: the first doctor of doctors_list whose variable of day i is 1
assigned_on(i) ==
    LET hits == {k \in 1 .. Len(doctors_list) :
                    <<i, doctors_list[k]>> \in x /\ doctors_list[k] \in value[i + 1]}
    IN  IF hits = {} THEN UNASSIGNED ELSE doctors_list[Min(hits)]

Decode ==
    /\ pc = "export"
    /\ schedule' = [n \in 1 .. days_in_month |-> assigned_on(n - 1)]
    /\ pc' = "write"
    /\ UNCHANGED <<days_in_month, first_weekday, doctors_list, raw, row, unavailability,
                   warnings, x, allow_unassigned_tuesdays, coverage, min_days, max_days,
                   min_wkend, max_wkend, status, value, solve_calls, out_file, written>>

WriteSchedule ==
    /\ pc = "write"
    /\ out_file' = schedule
    /\ written' = TRUE
    /\ pc' = "done"
    /\ UNCHANGED <<days_in_month, first_weekday, doctors_list, raw, row, unavailability,
                   warnings, x, allow_unassigned_tuesdays, coverage, min_days, max_days,
                   min_wkend, max_wkend, status, value, solve_calls, schedule>>

Next ==
    \/ ParseRow
    \/ ParseDone
    \/ CreateVariables
    \/ CheckCapacity
    \/ AddCoverage
    \/ AddFairness
    \/ Solve
    \/ StatusOk
    \/ RaiseNoFeasibleSchedule
    \/ Decode
    \/ WriteSchedule

Spec == Init /\ [][Next]_vars

(***************************************************************************)
(* Properties                                                              *)
(***************************************************************************)
Built == pc \notin {"parse", "variables"}

Returned == pc \in {"status", "export", "write", "done", "error"}

Decoded == pc \in {"write", "done"}

Finished == pc \in {"done", "error"}

\* the day numbers row k of the sheet makes its doctor unavailable on: those some
\* token of the cell parses to, within the month
ResolvedDayNumbers(k) ==
    LET stripped == {strip(raw[k][j]) : j \in 1 .. Len(raw[k])}
        parsed == {int_of(tok) : tok \in {t \in stripped : int_parses(t)}}
    IN  parsed \cap (1 .. days_in_month)

\* the positions of the tokens of row k that are neither empty nor a day number
\* of the month
SkippedTokens(k) ==
    {j \in 1 .. Len(raw[k]) :
        LET tok == strip(raw[k][j])
        IN  /\ tok # <<>>
            /\ ~(int_parses(tok) /\ int_of(tok) \in 1 .. days_in_month)}

\* the pairs <<row, day number>> the sheet makes unavailable
ResolvedPairs ==
    UNION {{<<k, n>> : n \in ResolvedDayNumbers(k)} : k \in 1 .. Len(doctors_list)}

SkippedPairs ==
    UNION {{<<k, j>> : j \in SkippedTokens(k)} : k \in 1 .. Len(doctors_list)}

\* a slack day: a Tuesday of a month with more days than doctors x 7
IsSlackDay(i) ==
    Len(doctors_list) * MaxDutiesPerDoctor < days_in_month /\ weekday(i) = Tuesday

DutyCount(doc) == Cardinality({i \in Days : doc \in value[i + 1]})

WeekendDutyCount(doc) == Cardinality({i \in Days : is_weekend(i) /\ doc \in value[i + 1]})

RosterCount(doc) == Cardinality({n \in 1 .. days_in_month : schedule[n] = doc})

\* C1: whenever the solver returns OPTIMAL or FEASIBLE, every non-slack day has
\* exactly one doctor with value 1 and every slack day at most one; the decoded
\* roster, and the file written from it, name a doctor on every non-slack day and
\* hold UNASSIGNED on slack days only.
C1_Coverage ==
    /\ solved =>
          \A i \in Days :
             IF IsSlackDay(i) THEN Cardinality(value[i + 1]) <= 1
             ELSE Cardinality(value[i + 1]) = 1
    /\ Decoded =>
          /\ Len(schedule) = days_in_month
          /\ \A i \in Days :
                /\ schedule[i + 1] \in DocSet \cup {UNASSIGNED}
                /\ schedule[i + 1] = UNASSIGNED => IsSlackDay(i)
                /\ schedule[i + 1] # UNASSIGNED => value[i + 1] = {schedule[i + 1]}
    /\ written => out_file = schedule

C1_Witness ==
    /\ pc = "done"
    /\ written
    /\ \E i, j \in Days :
          /\ IsSlackDay(i) /\ out_file[i + 1] = UNASSIGNED
          /\ IsSlackDay(j) /\ out_file[j + 1] # UNASSIGNED

\* C2: once the variables are created, x[(i, doc)] exists iff day number i + 1 is
\* not among the day numbers the doctor's tokens parse to within 1 .. daysInMonth;
\* every other token only adds a warning and parsing reaches every row; no
\* returned assignment and no decoded roster puts a doctor on such a day.
C2_Unavailability ==
    /\ pc # "parse" => DOMAIN unavailability = DocSet
    /\ pc # "parse" =>
          warnings = Cardinality(SkippedPairs)
    /\ Built =>
          LET resolved == ResolvedPairs
          IN  /\ \A k \in 1 .. Len(doctors_list) : \A i \in Days :
                    <<i, doctors_list[k]>> \in x <=> <<k, i + 1>> \notin resolved
              /\ solved =>
                    \A k \in 1 .. Len(doctors_list) : \A i \in Days :
                       doctors_list[k] \in value[i + 1] => <<k, i + 1>> \notin resolved
              /\ Decoded =>
                    \A k \in 1 .. Len(doctors_list) : \A i \in Days :
                       schedule[i + 1] = doctors_list[k] => <<k, i + 1>> \notin resolved

C2_Witness ==
    /\ pc = "done"
    /\ SkippedTokens(1) # {}
    /\ \E j \in 1 .. Len(raw[1]) : raw[1][j] # strip(raw[1][j])
    /\ ResolvedDayNumbers(1) # {}
    /\ \E i \in Days : schedule[i + 1] = doctors_list[1]

\* C3: in every returned assignment and decoded roster no doctor has duty on two
\* adjacent days of the month.
C3_NoConsecutive ==
    /\ solved =>
          \A doc \in DocSet : \A i \in 0 .. (days_in_month - 2) :
             ~(doc \in value[i + 1] /\ doc \in value[i + 2])
    /\ Decoded =>
          \A n \in 1 .. (days_in_month - 1) :
             schedule[n] # UNASSIGNED => schedule[n] # schedule[n + 1]

\* a roster with an unassigned slack day between two duties, next to a day on which
\* the doctor of the day before has no variable
C3_Witness ==
    /\ Decoded
    /\ \E n \in 2 .. (days_in_month - 1) :
          /\ schedule[n] = UNASSIGNED
          /\ schedule[n - 1] # UNASSIGNED
          /\ schedule[n + 1] # UNASSIGNED
          /\ <<n - 1, schedule[n - 1]>> \notin x

\* C4: in every returned assignment each doctor's duty count lies in
\* [floor(T/D), ceil(T/D)] and is at most 7, so the counts differ by at most 1.
C4_Balance ==
    solved =>
       /\ \A doc \in DocSet :
             /\ DutyCount(doc) >= days_in_month \div Len(doctors_list)
             /\ DutyCount(doc) <=
                   (days_in_month + Len(doctors_list) - 1) \div Len(doctors_list)
             /\ DutyCount(doc) <= MaxDutiesPerDoctor
       /\ \A d1, d2 \in DocSet : DutyCount(d1) - DutyCount(d2) <= 1
       /\ Decoded => \A doc \in DocSet : RosterCount(doc) = DutyCount(doc)

\* a returned assignment that leaves a slack day unassigned
C4_Witness ==
    /\ solved
    /\ pc = "status"
    /\ \E i \in Days : value[i + 1] = {}
    /\ \A doc \in DocSet : DutyCount(doc) = MaxDutiesPerDoctor

\* Scenario A: three doctors, a 30-day month, no unavailability
ScenarioA ==
    /\ Len(doctors_list) = 3
    /\ days_in_month = 30
    /\ \A k \in 1 .. Len(doctors_list) : ResolvedDayNumbers(k) = {}

\* C5 as stated: Scenario A ends with a roster in which each doctor has 9 or 10
\* duties, weekend counts differ by at most 1 and nobody works two days running.
C5_Original ==
    (ScenarioA /\ Finished /\ status # "UNKNOWN") =>
       /\ written
       /\ \A doc \in DocSet : DutyCount(doc) \in {9, 10}
       /\ \A d1, d2 \in DocSet : WeekendDutyCount(d1) - WeekendDutyCount(d2) <= 1
       /\ \A n \in 1 .. (days_in_month - 1) : schedule[n] # schedule[n + 1]

\* C5 (amended): in Scenario A no assignment satisfies the model (the band asks 10
\* duties of each doctor, the cap allows 7), so the solver never returns OPTIMAL or
\* FEASIBLE, the run ends with the "No feasible schedule found" error and no roster
\* is decoded or written.
C5_ScenarioA_Infeasible ==
    ScenarioA =>
       /\ pc = "solve" => (min_days = 10 /\ max_days = 10 /\ Solutions = {})
       /\ Returned => status \in {"INFEASIBLE", "UNKNOWN"}
       /\ pc \notin {"export", "write", "done"}
       /\ ~written /\ schedule = <<>> /\ out_file = <<>>

C5_Witness == ScenarioA /\ pc = "error" /\ status = "INFEASIBLE" /\ raw[1] = <<>>

\* Scenario B: the doctor of row k is unavailable on every day of the month
AbsentRow(k) == ResolvedDayNumbers(k) = 1 .. days_in_month

\* the roster in which every doctor but the one of row k works each day it is
\* available
OthersRoster(k) ==
    [n \in 1 .. days_in_month |->
        {doc \in DocSet \ {doctors_list[k]} : <<n - 1, doc>> \in x}]

\* the other doctors can cover the month: that roster covers every day with one
\* doctor and meets every constraint the script posts on each of them
OthersCanCover(k) ==
    LET sol == OthersRoster(k)
    IN  /\ \A i \in Days : Cardinality(sol[i + 1]) = 1
        /\ \A doc \in DocSet \ {doctors_list[k]} :
              /\ total_duties_hold(DutiesOn(sol, doc, Days))
              /\ weekend_duties_hold(DutiesOn(sol, doc, weekend_indices))
              /\ rest_weekend_holds(sol, doc)
              /\ weekend_day_repeat_holds(sol, doc)
              /\ \A i \in adjacent_pairs :
                    no_consecutive_holds(Val(sol, i, doc), Val(sol, i + 1, doc))

\* C6 as stated: with a doctor unavailable all month, the run produces a roster
\* that covers every day without that doctor whenever the others can cover the month.
C6_Original ==
    \A k \in 1 .. Len(doctors_list) :
       (Finished /\ status # "UNKNOWN" /\ AbsentRow(k) /\ OthersCanCover(k)) =>
          /\ written
          /\ \A i \in Days : out_file[i + 1] \notin {UNASSIGNED, doctors_list[k]}

\* C7: the coverage constraint posted for day i is "at most one" exactly when
\* doctors x 7 < days of the month and day i is a Tuesday; "exactly one" otherwise.
C7_SlackRelaxation ==
    pc \notin {"parse", "variables", "capacity", "coverage"} =>
       /\ DOMAIN coverage = Days
       /\ \A i \in Days :
             /\ coverage[i] \in {"le1", "eq1"}
             /\ coverage[i] = "le1" <=>
                   (/\ Len(doctors_list) * 7 < days_in_month
                    /\ (first_weekday + i) % 7 = 1)

C7_Witness ==
    /\ pc = "fairness"
    /\ \E i, j \in Days : coverage[i] = "le1" /\ coverage[j] = "eq1"
    /\ Len(doctors_list) = 4

\* some day that is not a slack day has no assignment variable
UncoverableDay ==
    /\ Built
    /\ \E i \in Days : ~IsSlackDay(i) /\ \A doc \in DocSet : <<i, doc>> \notin x

CapacityInsufficient ==
    Len(doctors_list) * MaxDutiesPerDoctor
        < Cardinality({i \in Days : weekday(i) # Tuesday})

\* C9: the roster file is written only after the solver returned OPTIMAL or
\* FEASIBLE, and then it is written; after any other status, and whenever capacity
\* is insufficient even with the slack days, the run ends in the "no feasible
\* schedule" error with nothing decoded or written.
C9_WriteOnlyAfterSuccess ==
    /\ written => (solved /\ solve_calls = 1 /\ out_file = schedule /\ pc = "done")
    /\ ~written => out_file = <<>>
    /\ (Returned /\ ~solved) => (pc \in {"status", "error"} /\ schedule = <<>>)
    /\ (Returned /\ solved) => pc # "error"
    /\ pc = "done" => (written /\ Len(out_file) = days_in_month)
    /\ (Returned /\ CapacityInsufficient) => ~solved
    /\ ~Returned => status = "NONE"

C9_Witness == pc = "done" /\ status = "FEASIBLE" /\ written /\ warnings = 0

\* C10 as stated: the weekend-day-repeat term excludes no assignment that satisfies
\* the hard constraints.
C10_Original ==
    pc = "solve" => \A sol \in Candidates : HardConstraints(sol) => Satisfies(sol)

====
